---- MODULE Spec2Model ----
(***************************************************************************)
(* devLLM: the project registry (projectStore), the port allocator, the   *)
(* project-creation dialog (NewProjectModal) and the health monitor of     *)
(* App (checkHealth and the effect that schedules it), with the App-level  *)
(* handlers that drive them.                                               *)
(*                                                                         *)
(* Strings that the code inspects character by character (project names    *)
(* and the ids derived from them) are sequences of one-character strings.  *)
(* A value held by localStorage is a record: [kind |-> "null"] for an      *)
(* absent key, [kind |-> "corrupt"] for a string JSON.parse rejects and    *)
(* [kind |-> "json", val |-> v] for the JSON text of the value v.          *)
(* A ProjectConfig keeps id, name and the two ports; description, color,   *)
(* paths and commands are read by no operation modelled here.              *)
(* The store is written against whatever built-in sequence the build       *)
(* imports, so DEFAULT_PROJECTS is chosen at Init among the shipped (empty) *)
(* sequence and a sequence of two defaults, and never changes afterwards.  *)
(*                                                                         *)
(* Five specifications share Init and the variables. Spec is the store     *)
(* called directly, SpecCreate the creation dialog, SpecUI the dialog with *)
(* the remove and restore handlers; the monitor reads the project list and *)
(* writes only its own state, which these three leave as Init set it.      *)
(* SpecMonitor is the checks inside a tick, one tick at a time, over the   *)
(* list of the first render; SpecSchedule is whole ticks that overlap,     *)
(* with the handlers that change the list and re-run the effect.           *)
(***************************************************************************)
EXTENDS Integers, Sequences, FiniteSets, TLC

VARIABLES
    DEFAULT_PROJECTS,  \* the built-in sequence (types/project.ts PROJECTS), fixed per build
    localStorage,      \* the two persistence keys
    projects,          \* App state: result of the last loadProjects
    removedDefaults,   \* App state: tombstoned defaults, for the restore cards
    modal,             \* NewProjectModal: mounted?, name, creating, error, ports of last render
    pending,           \* create_project invocations in flight (handleCreate suspended at await)
    lastOp,            \* the last store operation: name, argument, outcome, storage before it
    added,             \* history: the projects added and not removed since, in call order
    ticks,             \* checkHealth invocations in flight, in the order they started
    intervals,         \* armed setInterval timers, each with the list its checkHealth closes over
    statuses,          \* App state: the last status snapshot, by project id
    published          \* history of the last setStatuses: the tick's list, the list current then

monitorVars == <<ticks, intervals, statuses, published>>

vars == <<DEFAULT_PROJECTS, localStorage, projects, removedDefaults, modal, pending, lastOp, added,
          ticks, intervals, statuses, published>>

-----------------------------------------------------------------------------
(* Bounds of the model *)

MaxCustom == 2      \* addProject is explored while the stored custom list is shorter
MaxPending == 2     \* create_project invocations in flight at once
MaxInFlight == 2    \* checkHealth invocations in flight at once
MaxMonitored == 1   \* projects are imported under the monitor while the list is shorter

-----------------------------------------------------------------------------
(* Program constants *)

STORAGE_KEY == "devllm-projects"
REMOVED_DEFAULTS_KEY == "devllm-removed-defaults"
Keys == {STORAGE_KEY, REMOVED_DEFAULTS_KEY}

FrontendBase == 5173
BackendBase == 8000

-----------------------------------------------------------------------------
(* Sequences *)

Range(s) == {s[i] : i \in DOMAIN s}

RECURSIVE Filter(_, _)
\* Array.prototype.filter with the predicate given as the set of elements kept
Filter(s, keep) ==
    IF s = <<>> THEN <<>>
    ELSE IF Head(s) \in keep THEN <<Head(s)>> \o Filter(Tail(s), keep)
    ELSE Filter(Tail(s), keep)

-----------------------------------------------------------------------------
(* Inputs: names typed into the dialog, ids passed to the store, projects *)

Project(id, name, fe, be) ==
    [id |-> id, name |-> name, frontend |-> [port |-> fe], backend |-> [port |-> be]]

D1 == Project(<<"a">>, <<"A">>, 5173, 8000)
D2 == Project(<<"d">>, <<"d">>, 5174, 8001)

\* The builds considered: the shipped one (no defaults) and one with two defaults
BuiltinChoices == {<<>>, <<D1, D2>>}

Names == {<<" ">>, <<"A">>, <<"b">>}

Ids == {<<"a">>, <<"b">>, <<"d">>, <<"z">>}

\* Projects handed to addProject directly (the import path)
Imported == {Project(<<"a">>, <<"a">>, 5173, 8000), Project(<<"c">>, <<"c">>, 5175, 8000)}

-----------------------------------------------------------------------------
(* String operations of handleCreate *)

Whitespace == {" "}
LowerAlnum == {"a", "b", "c", "d", "z", "0", "1"}

LowerChar(c) == IF c = "A" THEN "a" ELSE IF c = "B" THEN "b" ELSE c

toLowerCase(s) == [i \in DOMAIN s |-> LowerChar(s[i])]

\* String.prototype.replace(/[^a-z0-9]/g, '-')
replaceNonAlnum(s) == [i \in DOMAIN s |-> IF s[i] \in LowerAlnum THEN s[i] ELSE "-"]

RECURSIVE trimStart(_)
trimStart(s) ==
    IF s # <<>> /\ Head(s) \in Whitespace THEN trimStart(Tail(s)) ELSE s

RECURSIVE trimEnd(_)
trimEnd(s) ==
    IF s # <<>> /\ s[Len(s)] \in Whitespace THEN trimEnd(SubSeq(s, 1, Len(s) - 1)) ELSE s

trim(s) == trimEnd(trimStart(s))

\* const projectId = name.toLowerCase().replace(/[^a-z0-9]/g, '-')
projectIdOf(name) == replaceNonAlnum(toLowerCase(name))

-----------------------------------------------------------------------------
(* localStorage and JSON *)

Null == [kind |-> "null"]
Corrupt == [kind |-> "corrupt"]

\* `if (stored)`: null is falsy, every stored string of the model is non-empty
Truthy(stored) == stored.kind # "null"

JSONstringify(v) == [kind |-> "json", val |-> v]

\* JSON.parse: the value, or a SyntaxError
JSONparse(stored) ==
    IF stored.kind = "json" THEN [threw |-> FALSE, val |-> stored.val]
    ELSE [threw |-> TRUE, val |-> <<>>]

setItem(ls, key, value) == [ls EXCEPT ![key] = value]

-----------------------------------------------------------------------------
(* projectStore *)

getRemovedDefaults(ls) ==
    LET stored == ls[REMOVED_DEFAULTS_KEY]
    IN  IF Truthy(stored)
        THEN LET r == JSONparse(stored) IN IF r.threw THEN <<>> ELSE r.val
        ELSE <<>>

\* DEFAULT_PROJECTS.filter(p => !removedDefaults.includes(p.id))
visibleDefaults(ls) ==
    LET removed == getRemovedDefaults(ls)
    IN  Filter(DEFAULT_PROJECTS, {p \in Range(DEFAULT_PROJECTS) : p.id \notin Range(removed)})

\* getProjects without the try/catch around JSON.parse
getProjects_noCatch(ls) ==
    LET stored == ls[STORAGE_KEY]
    IN  IF Truthy(stored)
        THEN LET r == JSONparse(stored)
             IN  IF r.threw THEN [threw |-> TRUE, val |-> <<>>]
                 ELSE [threw |-> FALSE, val |-> visibleDefaults(ls) \o r.val]
        ELSE [threw |-> FALSE, val |-> visibleDefaults(ls)]

\* getProjects filtering the tombstoned ids out of the whole list, custom projects too
getProjects_filterAll(ls) ==
    LET stored == ls[STORAGE_KEY]
        removed == getRemovedDefaults(ls)
        all == DEFAULT_PROJECTS \o (IF stored.kind = "json" THEN stored.val ELSE <<>>)
    IN  [threw |-> FALSE, val |-> Filter(all, {p \in Range(all) : p.id \notin Range(removed)})]

getProjects(ls) ==
    LET stored == ls[STORAGE_KEY]
    IN  IF Truthy(stored)
        THEN LET r == JSONparse(stored)
             IN  IF r.threw THEN [threw |-> FALSE, val |-> visibleDefaults(ls)]
                 ELSE [threw |-> FALSE, val |-> visibleDefaults(ls) \o r.val]
        ELSE [threw |-> FALSE, val |-> visibleDefaults(ls)]

\* addProject with unshift in place of push
addProject_unshift(ls, project) ==
    LET stored == ls[STORAGE_KEY]
        r == IF Truthy(stored) THEN JSONparse(stored) ELSE [threw |-> FALSE, val |-> <<>>]
    IN  IF r.threw THEN [threw |-> TRUE, ls |-> ls]
        ELSE [threw |-> FALSE,
              ls |-> setItem(ls, STORAGE_KEY, JSONstringify(<<project>> \o r.val))]

addProject(ls, project) ==
    LET stored == ls[STORAGE_KEY]
        r == IF Truthy(stored) THEN JSONparse(stored) ELSE [threw |-> FALSE, val |-> <<>>]
    IN  IF r.threw THEN [threw |-> TRUE, ls |-> ls]
        ELSE [threw |-> FALSE,
              ls |-> setItem(ls, STORAGE_KEY, JSONstringify(Append(r.val, project)))]

isDefault(projectId) == \E p \in Range(DEFAULT_PROJECTS) : p.id = projectId

\* removeProject with the filter predicate inverted (keeps the projects of that id)
removeProject_filterInverted(ls, projectId) ==
    IF isDefault(projectId)
    THEN LET removed == getRemovedDefaults(ls)
         IN  IF projectId \notin Range(removed)
             THEN [threw |-> FALSE,
                   ls |-> setItem(ls, REMOVED_DEFAULTS_KEY,
                                  JSONstringify(Append(removed, projectId)))]
             ELSE [threw |-> FALSE, ls |-> ls]
    ELSE LET stored == ls[STORAGE_KEY]
         IN  IF Truthy(stored)
             THEN LET r == JSONparse(stored)
                  IN  IF r.threw THEN [threw |-> TRUE, ls |-> ls]
                      ELSE [threw |-> FALSE,
                            ls |-> setItem(ls, STORAGE_KEY, JSONstringify(
                                      Filter(r.val, {p \in Range(r.val) : p.id = projectId})))]
             ELSE [threw |-> FALSE, ls |-> ls]

\* removeProject pushing the tombstone without the includes check
removeProject_noIncludesCheck(ls, projectId) ==
    IF isDefault(projectId)
    THEN LET removed == getRemovedDefaults(ls)
         IN  [threw |-> FALSE,
              ls |-> setItem(ls, REMOVED_DEFAULTS_KEY, JSONstringify(Append(removed, projectId)))]
    ELSE LET stored == ls[STORAGE_KEY]
         IN  IF Truthy(stored)
             THEN LET r == JSONparse(stored)
                  IN  IF r.threw THEN [threw |-> TRUE, ls |-> ls]
                      ELSE [threw |-> FALSE,
                            ls |-> setItem(ls, STORAGE_KEY, JSONstringify(
                                      Filter(r.val, {p \in Range(r.val) : p.id # projectId})))]
             ELSE [threw |-> FALSE, ls |-> ls]

removeProject(ls, projectId) ==
    IF isDefault(projectId)
    THEN LET removed == getRemovedDefaults(ls)
         IN  IF projectId \notin Range(removed)
             THEN [threw |-> FALSE,
                   ls |-> setItem(ls, REMOVED_DEFAULTS_KEY,
                                  JSONstringify(Append(removed, projectId)))]
             ELSE [threw |-> FALSE, ls |-> ls]
    ELSE LET stored == ls[STORAGE_KEY]
         IN  IF Truthy(stored)
             THEN LET r == JSONparse(stored)
                  IN  IF r.threw THEN [threw |-> TRUE, ls |-> ls]
                      ELSE [threw |-> FALSE,
                            ls |-> setItem(ls, STORAGE_KEY, JSONstringify(
                                      Filter(r.val, {p \in Range(r.val) : p.id # projectId})))]
             ELSE [threw |-> FALSE, ls |-> ls]

\* restoreDefaultProject clearing the whole tombstone list
restoreDefaultProject_clearAll(ls, projectId) ==
    [threw |-> FALSE, ls |-> setItem(ls, REMOVED_DEFAULTS_KEY, JSONstringify(<<>>))]

restoreDefaultProject(ls, projectId) ==
    LET removed == getRemovedDefaults(ls)
        filtered == Filter(removed, {id \in Range(removed) : id # projectId})
    IN  [threw |-> FALSE, ls |-> setItem(ls, REMOVED_DEFAULTS_KEY, JSONstringify(filtered))]

getRemovedDefaultIds(ls) == [threw |-> FALSE, val |-> getRemovedDefaults(ls)]

\* one past the highest used port, in place of the scan from the base
firstFree_pastHighest(used, port) ==
    LET above == {u \in used : u >= port}
    IN  IF above = {} THEN port ELSE (CHOOSE u \in above : \A v \in above : v <= u) + 1

RECURSIVE firstFree(_, _)
\* while (used.includes(port)) port++
firstFree(used, port) == IF port \in used THEN firstFree(used, port + 1) ELSE port

getNextAvailablePorts(ls) ==
    LET ps == getProjects(ls).val
        usedFrontend == {ps[i].frontend.port : i \in DOMAIN ps}
        usedBackend == {ps[i].backend.port : i \in DOMAIN ps}
    IN  [frontend |-> firstFree(usedFrontend, FrontendBase),
         backend |-> firstFree(usedBackend, BackendBase)]

-----------------------------------------------------------------------------
(* State shared by the actions *)

ClosedModal ==
    [open |-> FALSE, name |-> <<>>, creating |-> FALSE, error |-> "null",
     ports |-> [frontend |-> FrontendBase, backend |-> BackendBase]]

NoOp == [op |-> "none", arg |-> <<>>, threw |-> FALSE]

Op(name, arg, threw, before) == [op |-> name, arg |-> arg, threw |-> threw, before |-> before]

storedCustom(ls) == IF ls[STORAGE_KEY].kind = "json" THEN ls[STORAGE_KEY].val ELSE <<>>

\* loadProjects: setProjects(getProjects()); setRemovedDefaults(DEFAULT_PROJECTS.filter(...))
loadedProjects(ls) == getProjects(ls).val

loadedRemovedDefaults(ls) ==
    LET removedIds == getRemovedDefaultIds(ls).val
    IN  Filter(DEFAULT_PROJECTS, {p \in Range(DEFAULT_PROJECTS) : p.id \in Range(removedIds)})

\* const ports = getNextAvailablePorts(), evaluated each time the dialog renders; every
\* action that updates the dialog's or the App's state while it is mounted renders it
rendered(m, ls) == IF m.open THEN [m EXCEPT !.ports = getNextAvailablePorts(ls)] ELSE m

\* A dialog that unmounts no longer receives the state updates of its handleCreate calls
orphaned(ps) == [i \in DOMAIN ps |-> [ps[i] EXCEPT !.mounted = FALSE]]

removeAt(s, i) == SubSeq(s, 1, i - 1) \o SubSeq(s, i + 1, Len(s))

-----------------------------------------------------------------------------
(* The health monitor: checkHealth, checkPort, checkEndpoint and the effect
   that schedules them.  Its state is read by no store operation and by no
   dialog handler. *)

ProjectIds(ps) == {ps[i].id : i \in DOMAIN ps}

\* How a fetch can end: a 2xx response, any other response, a rejection
Responses == {"ok", "non2xx", "refused"}

\* checkPort: true once the fetch resolves, whatever the response; false in the catch
\* (the connection was refused, or the controller aborted the fetch)
checkPort(outcome) == outcome \in {"ok", "non2xx"}

\* a checkEndpoint that takes any response for health
checkEndpoint_anyResponse(outcome) == outcome \in {"ok", "non2xx"}

\* checkEndpoint: response.ok; false in the catch
checkEndpoint(outcome) == outcome = "ok"

\* checkPort arms setTimeout(() => controller.abort(), 2000); checkEndpoint arms nothing
hasTimeout(phase) == phase = "frontend"

\* running and healthy are the same boolean; lastCheck is new Date().toISOString()
ServiceStatus(healthy) == [running |-> healthy, healthy |-> healthy, lastCheck |-> "now"]

put(f, key, value) == [x \in DOMAIN f \cup {key} |-> IF x = key THEN value ELSE f[x]]

\* A checkHealth invocation: the list it closed over, the project and the check
\* its loop awaits, the frontend result of that project, newStatuses so far;
\* overtaken records that a tick started after it has already called setStatuses
startTick(list) ==
    [list |-> list, i |-> 1, phase |-> "frontend", fe |-> FALSE,
     acc |-> <<>>, hung |-> FALSE, overtaken |-> FALSE]

\* The loop continues after the awaited check returned `healthy`
resumed(t, healthy) ==
    IF t.phase = "frontend"
    THEN [t EXCEPT !.fe = healthy, !.phase = "backend", !.hung = FALSE]
    ELSE [t EXCEPT !.acc = put(t.acc, t.list[t.i].id,
                               [frontend |-> ServiceStatus(t.fe),
                                backend |-> ServiceStatus(healthy)]),
                   !.i = t.i + 1, !.phase = "frontend", !.fe = FALSE, !.hung = FALSE]

\* a checkHealth that calls setStatuses inside the loop, after each project
loopDone_eachProject(t) == t.phase = "frontend"

\* setStatuses(newStatuses) comes after the for loop
loopDone(t) == t.i > Len(t.list)

\* an effect whose cleanup does not clear the previous timer
armed_noCleanup(previous, ps) ==
    IF Len(ps) > 0 THEN Append(previous, [list |-> ps]) ELSE previous

\* The timers after the effect ran for the list ps: the cleanup cleared the
\* previous one, and one is set only for a non-empty list
armed(previous, ps) == IF Len(ps) > 0 THEN <<[list |-> ps]>> ELSE <<>>

NothingPublished == [any |-> FALSE, list |-> <<>>, current |-> <<>>, overtaken |-> FALSE]

\* ticks holds the invocations in start order: those before position k started earlier
overtake(ts, k) == [j \in DOMAIN ts |-> IF j < k THEN [ts[j] EXCEPT !.overtaken = TRUE] ELSE ts[j]]

Init ==
    /\ DEFAULT_PROJECTS \in BuiltinChoices
    /\ localStorage = [k \in Keys |-> Null]
    /\ projects = DEFAULT_PROJECTS
    /\ removedDefaults = <<>>
    /\ modal = ClosedModal
    /\ pending = <<>>
    /\ lastOp = NoOp
    /\ added = <<>>
    \* the effect of the first render: with projects to watch, a tick and a timer
    /\ ticks = IF Len(DEFAULT_PROJECTS) > 0 THEN <<startTick(DEFAULT_PROJECTS)>> ELSE <<>>
    /\ intervals = armed(<<>>, DEFAULT_PROJECTS)
    /\ statuses = <<>>
    /\ published = NothingPublished

-----------------------------------------------------------------------------
(* Store operations called directly (the import path, a fresh mount) *)

AddProject(project) ==
    /\ Len(storedCustom(localStorage)) + Len(pending) < MaxCustom
    /\ LET r == addProject(localStorage, project)
       IN  /\ localStorage' = r.ls
           /\ lastOp' = Op("addProject", project, r.threw, localStorage)
           /\ added' = IF r.threw THEN added ELSE Append(added, project)
    /\ UNCHANGED <<DEFAULT_PROJECTS, projects, removedDefaults, modal, pending>>
    /\ UNCHANGED monitorVars

removedFromHistory(log, projectId, threw) ==
    IF threw \/ isDefault(projectId) THEN log
    ELSE Filter(log, {p \in Range(log) : p.id # projectId})

RemoveProject(projectId) ==
    /\ LET r == removeProject(localStorage, projectId)
       IN  /\ localStorage' = r.ls
           /\ lastOp' = Op("removeProject", projectId, r.threw, localStorage)
           /\ added' = removedFromHistory(added, projectId, r.threw)
    /\ UNCHANGED <<DEFAULT_PROJECTS, projects, removedDefaults, modal, pending>>
    /\ UNCHANGED monitorVars

RestoreDefaultProject(projectId) ==
    /\ LET r == restoreDefaultProject(localStorage, projectId)
       IN  /\ localStorage' = r.ls
           /\ lastOp' = Op("restoreDefaultProject", projectId, r.threw, localStorage)
    /\ UNCHANGED <<DEFAULT_PROJECTS, projects, removedDefaults, modal, pending, added>>
    /\ UNCHANGED monitorVars

LoadProjects ==
    /\ LET r == getProjects(localStorage)
           ids == getRemovedDefaultIds(localStorage)
       IN  /\ projects' = IF r.threw THEN projects ELSE loadedProjects(localStorage)
           /\ removedDefaults' = IF r.threw \/ ids.threw THEN removedDefaults
                                   ELSE loadedRemovedDefaults(localStorage)
           /\ lastOp' = Op("getProjects", <<>>, r.threw \/ ids.threw, localStorage)
    /\ modal' = rendered(modal, localStorage)
    /\ UNCHANGED <<DEFAULT_PROJECTS, localStorage, pending, added>>
    /\ UNCHANGED monitorVars

GetNextAvailablePorts ==
    /\ lastOp' = Op("getNextAvailablePorts", getNextAvailablePorts(localStorage), FALSE, localStorage)
    /\ lastOp' # lastOp
    /\ UNCHANGED <<DEFAULT_PROJECTS, localStorage, projects, removedDefaults, modal, pending, added>>
    /\ UNCHANGED monitorVars

-----------------------------------------------------------------------------
(* The store's keys written from outside the store *)

CorruptKey(key) ==
    /\ localStorage[key] # Corrupt
    /\ localStorage' = setItem(localStorage, key, Corrupt)
    /\ added' = IF key = STORAGE_KEY THEN <<>> ELSE added
    /\ lastOp' = NoOp
    /\ UNCHANGED <<DEFAULT_PROJECTS, projects, removedDefaults, modal, pending>>
    /\ UNCHANGED monitorVars

ClearKey(key) ==
    /\ localStorage[key] # Null
    /\ localStorage' = setItem(localStorage, key, Null)
    /\ added' = IF key = STORAGE_KEY THEN <<>> ELSE added
    /\ lastOp' = NoOp
    /\ UNCHANGED <<DEFAULT_PROJECTS, projects, removedDefaults, modal, pending>>
    /\ UNCHANGED monitorVars

-----------------------------------------------------------------------------
(* App handlers *)

HandleRemoveProject(projectId) ==
    /\ ~modal.open
    /\ \E i \in DOMAIN projects : projects[i].id = projectId
    /\ LET r == removeProject(localStorage, projectId)
       IN  /\ localStorage' = r.ls
           /\ lastOp' = Op("removeProject", projectId, r.threw, localStorage)
           /\ added' = removedFromHistory(added, projectId, r.threw)
           /\ projects' = IF r.threw THEN projects ELSE loadedProjects(r.ls)
           /\ removedDefaults' = IF r.threw THEN removedDefaults ELSE loadedRemovedDefaults(r.ls)
    /\ UNCHANGED <<DEFAULT_PROJECTS, modal, pending>>
    /\ UNCHANGED monitorVars

HandleRestoreDefault(projectId) ==
    /\ ~modal.open
    /\ projects # <<>>
    /\ \E i \in DOMAIN removedDefaults : removedDefaults[i].id = projectId
    /\ LET r == restoreDefaultProject(localStorage, projectId)
       IN  /\ localStorage' = r.ls
           /\ lastOp' = Op("restoreDefaultProject", projectId, r.threw, localStorage)
           /\ projects' = loadedProjects(r.ls)
           /\ removedDefaults' = loadedRemovedDefaults(r.ls)
    /\ UNCHANGED <<DEFAULT_PROJECTS, modal, pending, added>>
    /\ UNCHANGED monitorVars

OpenNewProject ==
    /\ ~modal.open
    /\ modal' = rendered([ClosedModal EXCEPT !.open = TRUE], localStorage)
    /\ UNCHANGED <<DEFAULT_PROJECTS, localStorage, projects, removedDefaults, pending, lastOp, added>>
    /\ UNCHANGED monitorVars

-----------------------------------------------------------------------------
(* NewProjectModal *)

SetName(name) ==
    /\ modal.open
    /\ modal.name # name
    /\ modal' = rendered([modal EXCEPT !.name = name], localStorage)
    /\ UNCHANGED <<DEFAULT_PROJECTS, localStorage, projects, removedDefaults, pending, lastOp, added>>
    /\ UNCHANGED monitorVars

\* onClose: setShowNewProject(false)
CloseModal ==
    /\ modal.open
    /\ modal' = ClosedModal
    /\ pending' = orphaned(pending)
    /\ UNCHANGED <<DEFAULT_PROJECTS, localStorage, projects, removedDefaults, lastOp, added>>
    /\ UNCHANGED monitorVars

\* handleCreate without the test of name.trim()
HandleCreate_noValidation ==
    /\ modal.open
    /\ ~modal.creating
    /\ Len(storedCustom(localStorage)) + Len(pending) < MaxCustom
    /\ Len(pending) < MaxPending
    /\ modal' = rendered([modal EXCEPT !.creating = TRUE, !.error = "null"], localStorage)
    /\ pending' = Append(pending, [projectId |-> projectIdOf(modal.name),
                                   name |-> modal.name,
                                   ports |-> modal.ports,
                                   mounted |-> TRUE])
    /\ UNCHANGED <<DEFAULT_PROJECTS, localStorage, projects, removedDefaults, lastOp, added>>
    /\ UNCHANGED monitorVars

\* handleCreate up to `await invoke('create_project', ...)`
HandleCreate ==
    /\ modal.open
    /\ ~modal.creating
    /\ IF trim(modal.name) = <<>>
       THEN /\ modal' = rendered([modal EXCEPT !.error = "Project name is required"], localStorage)
            /\ UNCHANGED pending
       ELSE /\ Len(storedCustom(localStorage)) + Len(pending) < MaxCustom
            /\ Len(pending) < MaxPending
            /\ modal' = rendered([modal EXCEPT !.creating = TRUE, !.error = "null"], localStorage)
            /\ pending' = Append(pending, [projectId |-> projectIdOf(modal.name),
                                           name |-> modal.name,
                                           ports |-> modal.ports,
                                           mounted |-> TRUE])
    /\ UNCHANGED <<DEFAULT_PROJECTS, localStorage, projects, removedDefaults, lastOp, added>>
    /\ UNCHANGED monitorVars

\* the project handleCreate assembles once create_project has succeeded
createdProject(c) == Project(c.projectId, c.name, c.ports.frontend, c.ports.backend)

\* create_project succeeded: addProject(project); onCreated(); finally setCreating(false)
CreateProjectResolved(i) ==
    /\ i \in DOMAIN pending
    /\ LET c == pending[i]
           r == addProject(localStorage, createdProject(c))
           rest == removeAt(pending, i)
       IN  /\ localStorage' = r.ls
           /\ lastOp' = Op("addProject", createdProject(c), r.threw, localStorage)
           /\ added' = IF r.threw THEN added ELSE Append(added, createdProject(c))
           /\ IF r.threw
              THEN /\ modal' = IF c.mounted
                               THEN rendered([modal EXCEPT !.error = "SyntaxError",
                                                           !.creating = FALSE], r.ls)
                               ELSE modal
                   /\ pending' = rest
                   /\ UNCHANGED <<projects, removedDefaults>>
              ELSE \* handleProjectCreated: loadProjects(); setShowNewProject(false)
                   /\ projects' = loadedProjects(r.ls)
                   /\ removedDefaults' = loadedRemovedDefaults(r.ls)
                   /\ modal' = ClosedModal
                   /\ pending' = orphaned(rest)
    /\ UNCHANGED DEFAULT_PROJECTS
    /\ UNCHANGED monitorVars

\* create_project failed: setError(String(err)); finally setCreating(false)
CreateProjectRejected(i) ==
    /\ i \in DOMAIN pending
    /\ modal' = IF pending[i].mounted
                THEN rendered([modal EXCEPT !.error = "create_project failed",
                                            !.creating = FALSE], localStorage)
                ELSE modal
    /\ pending' = removeAt(pending, i)
    /\ UNCHANGED <<DEFAULT_PROJECTS, localStorage, projects, removedDefaults, lastOp, added>>
    /\ UNCHANGED monitorVars

-----------------------------------------------------------------------------
(* The health monitor's scheduling, together with the list changes that
   re-run its effect *)

\* useEffect(..., [projects, checkHealth]) after setProjects(ps): a new array
\* each time, so the cleanup and the effect run on every loadProjects
Effect(ps) ==
    /\ intervals' = armed(intervals, ps)
    /\ IF Len(ps) > 0
       THEN ticks' = Append(ticks, startTick(ps))
       ELSE UNCHANGED ticks
    /\ UNCHANGED <<statuses, published>>

\* handleProjectImported after the import dialog's addProject
ProjectImported(project) ==
    /\ ~modal.open
    /\ Len(projects) < MaxMonitored
    /\ Len(ticks) < MaxInFlight
    /\ LET r == addProject(localStorage, project)
       IN  /\ ~r.threw
           /\ localStorage' = r.ls
           /\ lastOp' = Op("addProject", project, r.threw, localStorage)
           /\ added' = Append(added, project)
           /\ projects' = loadedProjects(r.ls)
           /\ removedDefaults' = loadedRemovedDefaults(r.ls)
           /\ Effect(loadedProjects(r.ls))
    /\ UNCHANGED <<DEFAULT_PROJECTS, modal, pending>>

\* handleRemoveProject, and the effect of the list it loads
ProjectRemoved(projectId) ==
    /\ ~modal.open
    /\ Len(ticks) < MaxInFlight
    /\ \E i \in DOMAIN projects : projects[i].id = projectId
    /\ LET r == removeProject(localStorage, projectId)
       IN  /\ ~r.threw
           /\ localStorage' = r.ls
           /\ lastOp' = Op("removeProject", projectId, r.threw, localStorage)
           /\ added' = removedFromHistory(added, projectId, r.threw)
           /\ projects' = loadedProjects(r.ls)
           /\ removedDefaults' = loadedRemovedDefaults(r.ls)
           /\ Effect(loadedProjects(r.ls))
    /\ UNCHANGED <<DEFAULT_PROJECTS, modal, pending>>

\* handleRestoreDefault, and the effect of the list it loads
DefaultRestored(projectId) ==
    /\ ~modal.open
    /\ Len(ticks) < MaxInFlight
    /\ projects # <<>>
    /\ \E i \in DOMAIN removedDefaults : removedDefaults[i].id = projectId
    /\ LET r == restoreDefaultProject(localStorage, projectId)
       IN  /\ localStorage' = r.ls
           /\ lastOp' = Op("restoreDefaultProject", projectId, r.threw, localStorage)
           /\ projects' = loadedProjects(r.ls)
           /\ removedDefaults' = loadedRemovedDefaults(r.ls)
           /\ Effect(loadedProjects(r.ls))
    /\ UNCHANGED <<DEFAULT_PROJECTS, modal, pending, added>>

\* The timer's callback: the checkHealth of the render that armed it
TimerFires(k) ==
    /\ k \in DOMAIN intervals
    /\ Len(ticks) < MaxInFlight
    /\ ticks' = Append(ticks, startTick(intervals[k].list))
    /\ UNCHANGED <<DEFAULT_PROJECTS, localStorage, projects, removedDefaults, modal, pending,
                   lastOp, added, intervals, statuses, published>>

\* The remote accepts the awaited request and never answers it
RemoteHangs(k) ==
    /\ k \in DOMAIN ticks
    /\ ~ticks[k].hung
    /\ ticks' = [ticks EXCEPT ![k].hung = TRUE]
    /\ UNCHANGED <<DEFAULT_PROJECTS, localStorage, projects, removedDefaults, modal, pending,
                   lastOp, added, intervals, statuses, published>>

\* The loop of tick k goes on with the result of its awaited check; after the
\* last project it calls setStatuses(newStatuses) and returns
Continue(k, healthy) ==
    LET t == resumed(ticks[k], healthy)
    IN  /\ IF loopDone(t)
           THEN /\ statuses' = t.acc
                /\ published' = [any |-> TRUE, list |-> t.list, current |-> projects,
                                 overtaken |-> t.overtaken]
                /\ ticks' = removeAt(overtake(ticks, k), k)
           ELSE /\ ticks' = [ticks EXCEPT ![k] = t]
                /\ UNCHANGED <<statuses, published>>
        /\ UNCHANGED <<DEFAULT_PROJECTS, localStorage, projects, removedDefaults, modal,
                       pending, lastOp, added, intervals>>

\* The awaited fetch of tick k resolves or rejects
FetchSettles(k, outcome) ==
    /\ k \in DOMAIN ticks
    /\ ~ticks[k].hung
    /\ Continue(k, IF ticks[k].phase = "frontend" THEN checkPort(outcome)
                                                  ELSE checkEndpoint(outcome))

\* The 2000 ms timer of checkPort aborts its fetch, which rejects
AbortFires(k) ==
    /\ k \in DOMAIN ticks
    /\ hasTimeout(ticks[k].phase)
    /\ Continue(k, checkPort("aborted"))

\* The timer fires once the tick before it has returned
TimerFiresAfterTick(k) ==
    /\ ticks = <<>>
    /\ TimerFires(k)

\* The loop of t run to its end against servers that answer every check with a
\* 2xx response
RECURSIVE settleAll(_)
settleAll(t) ==
    IF loopDone(t) THEN t
    ELSE settleAll(resumed(t, IF t.phase = "frontend" THEN checkPort("ok")
                                                      ELSE checkEndpoint("ok")))

\* A whole checkHealth invocation, from the checks it still awaits to its
\* setStatuses: until then it reads its own list and writes its own newStatuses
TickCompletes(k) ==
    /\ k \in DOMAIN ticks
    /\ LET t == settleAll(ticks[k])
       IN  /\ statuses' = t.acc
           /\ published' = [any |-> TRUE, list |-> t.list, current |-> projects,
                            overtaken |-> t.overtaken]
           /\ ticks' = removeAt(overtake(ticks, k), k)
    /\ UNCHANGED <<DEFAULT_PROJECTS, localStorage, projects, removedDefaults, modal,
                   pending, lastOp, added, intervals>>

-----------------------------------------------------------------------------
(* Specifications *)

\* What the user interface alone can do
NextUI ==
    \/ OpenNewProject
    \/ \E name \in Names : SetName(name)
    \/ CloseModal
    \/ HandleCreate
    \/ \E i \in 1..MaxPending : CreateProjectResolved(i)
    \/ \E i \in 1..MaxPending : CreateProjectRejected(i)
    \/ \E projectId \in Ids : HandleRemoveProject(projectId)
    \/ \E projectId \in Ids : HandleRestoreDefault(projectId)

\* The New Project dialog alone: what the user and the process host can do to it
NextCreate ==
    \/ OpenNewProject
    \/ \E name \in Names : SetName(name)
    \/ CloseModal
    \/ HandleCreate
    \/ \E i \in 1..MaxPending : CreateProjectResolved(i)
    \/ \E i \in 1..MaxPending : CreateProjectRejected(i)

\* Direct callers of the store, and writes to its keys from outside
Next ==
    \/ \E project \in Imported : AddProject(project)
    \/ \E projectId \in Ids : RemoveProject(projectId)
    \/ \E projectId \in Ids : RestoreDefaultProject(projectId)
    \/ LoadProjects
    \/ GetNextAvailablePorts
    \/ \E key \in Keys : CorruptKey(key)
    \/ \E key \in Keys : ClearKey(key)

Spec == Init /\ [][Next]_vars

SpecUI == Init /\ [][NextUI]_vars

SpecCreate == Init /\ [][NextCreate]_vars

\* The checks inside a tick, one tick at a time, over the list of the first
\* render: the timer, the fetches and what the watched servers can do
NextMonitor ==
    \/ \E k \in 1..MaxInFlight : TimerFiresAfterTick(k)
    \/ \E k \in 1..MaxInFlight : RemoteHangs(k)
    \/ \E k \in 1..MaxInFlight, outcome \in Responses : FetchSettles(k, outcome)
    \/ \E k \in 1..MaxInFlight : AbortFires(k)

SpecMonitor == Init /\ [][NextMonitor]_vars

\* Ticks as wholes, overlapping: the handlers that change the watched list, the
\* effect they re-run, the timer, and ticks that run to their setStatuses
NextSchedule ==
    \/ \E project \in Imported : ProjectImported(project)
    \/ \E projectId \in Ids : ProjectRemoved(projectId)
    \/ \E projectId \in Ids : DefaultRestored(projectId)
    \/ \E k \in 1..MaxInFlight : TimerFires(k)
    \/ \E k \in 1..MaxInFlight : TickCompletes(k)

SpecSchedule == Init /\ [][NextSchedule]_vars

-----------------------------------------------------------------------------
(* What the claims speak of, stated apart from the store's code *)

\* the tombstone set held by a storage: the ids of a parseable removed-defaults value
TombstoneSet(ls) ==
    IF ls[REMOVED_DEFAULTS_KEY].kind = "json" THEN Range(ls[REMOVED_DEFAULTS_KEY].val) ELSE {}

\* the defaults not tombstoned, in built-in order
ExpectedDefaults(ls) == SelectSeq(DEFAULT_PROJECTS, LAMBDA p : p.id \notin TombstoneSet(ls))

Ports(ps, side) == {ps[i][side].port : i \in DOMAIN ps}

Count(s, x) == Cardinality({i \in DOMAIN s : s[i] = x})

-----------------------------------------------------------------------------
(* C1: getProjects() returns the visible defaults first, in built-in order, *)
(* followed by the custom projects in the order they were added.            *)
C1_DefaultsThenCustomInInsertionOrder ==
    getProjects(localStorage).val = ExpectedDefaults(localStorage) \o added

\* two different projects were added, a default is hidden and another is shown
C1_Witness ==
    /\ lastOp.op = "addProject"
    /\ ~lastOp.threw
    /\ Len(added) = 2
    /\ added[1] # added[2]
    /\ TombstoneSet(localStorage) # {}
    /\ ExpectedDefaults(localStorage) # <<>>
    /\ getProjects(localStorage).val = ExpectedDefaults(localStorage) \o added

-----------------------------------------------------------------------------
(* C2: getNextAvailablePorts() returns, for frontend and backend apart, the  *)
(* smallest port >= 5173 (>= 8000) that no project of the effective registry *)
(* uses: (5173, 8000) for an empty registry, (5174, 8001) when the only      *)
(* project uses 5173/8000.                                                   *)
SmallestFree(port, base, used) ==
    /\ port >= base
    /\ port \notin used
    /\ \A q \in base..(port - 1) : q \in used

C2_SmallestUnusedPorts ==
    lastOp.op = "getNextAvailablePorts" =>
        LET ps == getProjects(lastOp.before).val
            got == lastOp.arg
        IN  /\ SmallestFree(got.frontend, 5173, Ports(ps, "frontend"))
            /\ SmallestFree(got.backend, 8000, Ports(ps, "backend"))
            /\ ps = <<>> => got = [frontend |-> 5173, backend |-> 8000]
            /\ (Len(ps) = 1 /\ ps[1].frontend.port = 5173 /\ ps[1].backend.port = 8000)
                  => got = [frontend |-> 5174, backend |-> 8001]

\* the registry uses a port above a free one, so the smallest free port is not the next
\* one after the highest
C2_Witness ==
    /\ lastOp.op = "getNextAvailablePorts"
    /\ lastOp.before = localStorage
    /\ LET ps == getProjects(localStorage).val
       IN  /\ 5175 \in Ports(ps, "frontend")
           /\ 5173 \in Ports(ps, "frontend")
           /\ lastOp.arg = [frontend |-> 5174, backend |-> 8001]

-----------------------------------------------------------------------------
PortsDistinct(ps) ==
    \A i, j \in DOMAIN ps :
        i # j => /\ ps[i].frontend.port # ps[j].frontend.port
                 /\ ps[i].backend.port # ps[j].backend.port

IdsDistinct(ps) == \A i, j \in DOMAIN ps : i # j => ps[i].id # ps[j].id

(* C3: after any sequence of project creations (each with the ports of      *)
(* getNextAvailablePorts), removals and default restores, no two projects   *)
(* of the effective registry share a frontend port and no two share a       *)
(* backend port. Stated for the shipped build, which has no built-in        *)
(* defaults: two creations overlap when the dialog is cancelled and         *)
(* reopened while create_project is still running.                          *)
C3_NoSharedPorts ==
    DEFAULT_PROJECTS = <<>> => PortsDistinct(getProjects(localStorage).val)

\* C3 in every build: with defaults, remove a default, create, restore the default
C3_NoSharedPortsAnyBuild == PortsDistinct(getProjects(localStorage).val)

(* C4: project ids are unique across the effective registry getProjects()   *)
(* returns, for any sequence of create, remove and restore operations.      *)
(* Stated for the shipped build, which has no built-in defaults.            *)
C4_UniqueIds ==
    DEFAULT_PROJECTS = <<>> => IdsDistinct(getProjects(localStorage).val)

\* C4 in every build: with defaults, a created project may take a default's id
C4_UniqueIdsAnyBuild == IdsDistinct(getProjects(localStorage).val)

-----------------------------------------------------------------------------
(* C5: if the stored value of the custom-projects key or of the             *)
(* removed-defaults key is unparseable, getProjects() does not throw and    *)
(* returns what it would return were that key absent, still using the data  *)
(* of the other key.                                                        *)
C5_CorruptKeyReadAsAbsent ==
    lastOp.op = "getProjects" =>
        /\ lastOp.before[STORAGE_KEY] = Corrupt =>
              /\ ~lastOp.threw
              /\ projects = getProjects(setItem(lastOp.before, STORAGE_KEY, Null)).val
              /\ projects = ExpectedDefaults(lastOp.before)
        /\ lastOp.before[REMOVED_DEFAULTS_KEY] = Corrupt =>
              /\ ~lastOp.threw
              /\ projects = getProjects(setItem(lastOp.before, REMOVED_DEFAULTS_KEY, Null)).val
              /\ projects = DEFAULT_PROJECTS \o storedCustom(lastOp.before)

\* the custom key is corrupt, the tombstones are read: one default hidden, one returned
C5_Witness ==
    /\ lastOp.op = "getProjects"
    /\ lastOp.before[STORAGE_KEY] = Corrupt
    /\ TombstoneSet(lastOp.before) # {}
    /\ projects # <<>>
    /\ projects = ExpectedDefaults(lastOp.before)

-----------------------------------------------------------------------------
(* C6: addProject(project) called while the custom-projects key is absent   *)
(* or unparseable completes without error and leaves the stored custom list *)
(* exactly [project].                                                       *)
C6_AddOverAbsentOrCorrupt ==
    (lastOp.op = "addProject" /\ lastOp.before[STORAGE_KEY] \in {Null, Corrupt}) =>
        /\ ~lastOp.threw
        /\ localStorage[STORAGE_KEY] = JSONstringify(<<lastOp.arg>>)

-----------------------------------------------------------------------------
(* C7: no Registry Store operation (getProjects, addProject, removeProject, *)
(* restoreDefaultProject, getRemovedDefaultIds) propagates a parse error to *)
(* its caller, whatever the two keys hold; removeProject of a non-default   *)
(* id with a corrupt custom-projects key completes without error.           *)
StoreOps == {"getProjects", "addProject", "removeProject", "restoreDefaultProject"}

C7_NoParseErrorPropagates == lastOp.op \in StoreOps => ~lastOp.threw

-----------------------------------------------------------------------------
(* C8: removeProject(id) on a default project's id is idempotent: a second  *)
(* call leaves the tombstone set of the first (no duplicate entry), and the *)
(* call changes neither the built-in sequence nor the custom-projects list. *)
(* (No operation of the store assigns the built-in sequence: every action   *)
(* leaves DEFAULT_PROJECTS unchanged.)                                      *)
C8_RemoveDefaultIdempotent ==
    (lastOp.op = "removeProject" /\ \E p \in Range(DEFAULT_PROJECTS) : p.id = lastOp.arg) =>
        LET before == lastOp.before
            id == lastOp.arg
            stored == localStorage[REMOVED_DEFAULTS_KEY]
        IN  /\ ~lastOp.threw
            /\ stored.kind = "json"
            /\ Count(stored.val, id) = 1
            /\ TombstoneSet(localStorage) = TombstoneSet(before) \cup {id}
            /\ id \in TombstoneSet(before) => localStorage = before
            /\ localStorage[STORAGE_KEY] = before[STORAGE_KEY]

\* the second removeProject of a default, with a custom project stored
C8_Witness ==
    /\ lastOp.op = "removeProject"
    /\ ~lastOp.threw
    /\ \E p \in Range(DEFAULT_PROJECTS) : p.id = lastOp.arg
    /\ lastOp.arg \in TombstoneSet(lastOp.before)
    /\ localStorage = lastOp.before
    /\ storedCustom(localStorage) # <<>>

-----------------------------------------------------------------------------
(* C9: for a tombstoned default id, restoreDefaultProject(id) followed by   *)
(* getProjects() returns that default again, at its original position among *)
(* the visible defaults and with the fields of the built-in definition;     *)
(* on an id that is not tombstoned it leaves the effective registry as it   *)
(* was.                                                                     *)
BuiltinIndex(p) == CHOOSE i \in DOMAIN DEFAULT_PROJECTS : DEFAULT_PROJECTS[i] = p

C9_RestoreDefault ==
    lastOp.op = "restoreDefaultProject" =>
        LET id == lastOp.arg
            res == getProjects(localStorage).val
            nvis == Len(res) - Len(storedCustom(localStorage))
        IN  /\ ~lastOp.threw
            /\ (id \in TombstoneSet(lastOp.before) /\ \E p \in Range(DEFAULT_PROJECTS) : p.id = id) =>
                  \E j \in 1..nvis :
                      /\ res[j].id = id
                      /\ res[j] \in Range(DEFAULT_PROJECTS)
                      /\ \A i \in 1..nvis :
                            /\ res[i] \in Range(DEFAULT_PROJECTS)
                            /\ i < j => BuiltinIndex(res[i]) < BuiltinIndex(res[j])
                            /\ i > j => BuiltinIndex(res[i]) > BuiltinIndex(res[j])
            /\ id \notin TombstoneSet(lastOp.before) =>
                  res = getProjects(lastOp.before).val

\* the first default is restored while the second is visible: it is first again
C9_Witness ==
    /\ lastOp.op = "restoreDefaultProject"
    /\ Len(DEFAULT_PROJECTS) = 2
    /\ lastOp.arg = DEFAULT_PROJECTS[1].id
    /\ lastOp.arg \in TombstoneSet(lastOp.before)
    /\ Len(getProjects(lastOp.before).val) >= 2
    /\ getProjects(lastOp.before).val[1] = DEFAULT_PROJECTS[2]
    /\ getProjects(localStorage).val[1] = DEFAULT_PROJECTS[1]
    /\ getProjects(localStorage).val[2] = DEFAULT_PROJECTS[2]

-----------------------------------------------------------------------------
(* C10: in every reachable state a default project appears in getProjects() *)
(* if and only if its id is not in the tombstone set, and every project of  *)
(* the custom list appears in getProjects() whatever the tombstone set      *)
(* holds.                                                                   *)
C10_VisibleIffNotTombstoned ==
    LET res == getProjects(localStorage).val
        custom == storedCustom(localStorage)
        nvis == Len(res) - Len(custom)
    IN  /\ nvis >= 0
        /\ \A d \in Range(DEFAULT_PROJECTS) :
              (\E j \in 1..nvis : res[j] = d) <=> d.id \notin TombstoneSet(localStorage)
        /\ \A k \in DOMAIN custom : res[nvis + k] = custom[k]

\* a stored custom project has the id of a tombstoned default and is returned
C10_Witness ==
    /\ lastOp.op = "getProjects"
    /\ lastOp.before = localStorage
    /\ \E k \in DOMAIN storedCustom(localStorage) :
          /\ storedCustom(localStorage)[k].id \in TombstoneSet(localStorage)
          /\ storedCustom(localStorage)[k] \in Range(projects)
    /\ \E d \in Range(DEFAULT_PROJECTS) : d.id \in TombstoneSet(localStorage) /\ d \notin Range(projects)
    /\ \E d \in Range(DEFAULT_PROJECTS) : d \in Range(projects)

-----------------------------------------------------------------------------
(* C11: removeProject(id) with a non-default id that is not in the custom   *)
(* list is a no-op: the custom list, the tombstone set and the result of    *)
(* getProjects() are the same after the call as before it.                  *)
CustomIds(ls) == {storedCustom(ls)[i].id : i \in DOMAIN storedCustom(ls)}

C11_RemoveAbsentCustomIsNoOp ==
    (/\ lastOp.op = "removeProject"
     /\ \A p \in Range(DEFAULT_PROJECTS) : p.id # lastOp.arg
     /\ lastOp.arg \notin CustomIds(lastOp.before)) =>
        /\ storedCustom(localStorage) = storedCustom(lastOp.before)
        /\ TombstoneSet(localStorage) = TombstoneSet(lastOp.before)
        /\ getProjects(localStorage).val = getProjects(lastOp.before).val

\* an id that no project has is removed while custom projects and a tombstone are stored
C11_Witness ==
    /\ lastOp.op = "removeProject"
    /\ ~lastOp.threw
    /\ \A p \in Range(DEFAULT_PROJECTS) : p.id # lastOp.arg
    /\ lastOp.arg \notin CustomIds(lastOp.before)
    /\ storedCustom(lastOp.before) # <<>>
    /\ TombstoneSet(lastOp.before) # {}
    /\ storedCustom(localStorage) = storedCustom(lastOp.before)

-----------------------------------------------------------------------------
\* The dialog shows the error of create_project and its in-progress flag is cleared
C17_ErrorShown ==
    /\ modal'.open
    /\ modal'.error = "create_project failed"
    /\ ~modal'.creating

\* One step of a creation: validation, a failure of create_project, a call of
\* addProject. everywhere: the error is shown after every failure; otherwise
\* after the failures whose dialog is still mounted.
C17_Step(everywhere) ==
    /\ (trim(modal.name) = <<>> /\ HandleCreate) =>
          /\ pending' = pending
          /\ localStorage' = localStorage
          /\ lastOp' = lastOp
          /\ modal'.error = "Project name is required"
    /\ \A i \in DOMAIN pending :
          CreateProjectRejected(i) =>
              /\ localStorage' = localStorage
              /\ lastOp' = lastOp
              /\ projects' = projects
              /\ pending' = removeAt(pending, i)
              /\ (everywhere \/ pending[i].mounted) => C17_ErrorShown
    /\ (lastOp' # lastOp /\ lastOp'.op = "addProject") =>
          \E i \in DOMAIN pending :
              /\ trim(pending[i].name) # <<>>
              /\ lastOp'.arg = createdProject(pending[i])
              /\ CreateProjectResolved(i)
    /\ \A i \in DOMAIN pending' : trim(pending'[i].name) # <<>>

-----------------------------------------------------------------------------
\* What the claims say a check yields for a response, apart from the code
expectedHealthy(phase, outcome) ==
    IF phase = "frontend" THEN outcome \in {"ok", "non2xx"} ELSE outcome = "ok"

\* The step records `healthy` as the result of the check tick k awaited: the
\* frontend result is kept for the project's entry, the backend result is
\* entered with it, in newStatuses or in the snapshot the tick publishes
C12_Recorded(k, healthy) ==
    LET t == ticks[k]
        id == t.list[t.i].id
    IN  IF t.phase = "frontend"
        THEN /\ ticks'[k].phase = "backend"
             /\ ticks'[k].i = t.i
             /\ ticks'[k].fe = healthy
        ELSE LET st == IF t.i = Len(t.list) THEN statuses'[id] ELSE ticks'[k].acc[id]
             IN  /\ st.backend.healthy = healthy
                 /\ st.backend.running = healthy
                 /\ st.frontend.healthy = t.fe
                 /\ st.frontend.running = t.fe

C12_Step ==
    \A k \in DOMAIN ticks :
        /\ \A outcome \in Responses :
              FetchSettles(k, outcome) =>
                  C12_Recorded(k, expectedHealthy(ticks[k].phase, outcome))
        /\ AbortFires(k) => C12_Recorded(k, FALSE)

(* C12: in a health tick a project's frontend is healthy exactly when its   *)
(* probe completed with any response, its backend exactly when the health   *)
(* request got a 2xx response, and neither result depends on the other:     *)
(* every check that settles is recorded so, whatever the project's other    *)
(* check gave.                                                              *)
C12_FrontendAnyResponseBackend2xx == [][C12_Step]_vars

\* a published snapshot with a project whose frontend is down and whose backend is healthy
C12_Witness ==
    /\ published.any
    /\ \E id \in DOMAIN statuses :
          /\ ~statuses[id].frontend.healthy
          /\ statuses[id].backend.healthy

-----------------------------------------------------------------------------
(* C13: a tick publishes one snapshot, after every check of every project   *)
(* of its list has settled: whenever a snapshot has been published it holds *)
(* a frontend and a backend status with a lastCheck for exactly the         *)
(* projects of the publishing tick's list, and before the first publication *)
(* there is none.                                                           *)
C13_CompleteSnapshotOnly ==
    /\ ~published.any => statuses = <<>>
    /\ published.any =>
          /\ DOMAIN statuses = ProjectIds(published.list)
          /\ \A id \in DOMAIN statuses :
                /\ statuses[id].frontend.lastCheck # "null"
                /\ statuses[id].backend.lastCheck # "null"

\* the snapshot of a two-project tick stands while the next tick is half-way
C13_Witness ==
    /\ published.any
    /\ Cardinality(DOMAIN statuses) = 2
    /\ ticks # <<>>
    /\ ticks[1].i = 2
    /\ DOMAIN ticks[1].acc # DOMAIN statuses

-----------------------------------------------------------------------------
(* C14: within a tick the checks of different projects run concurrently: a  *)
(* check that does not settle delays the start of no other project's        *)
(* checks, so when the awaited check of a tick hangs, the checks of every   *)
(* project of the tick's list have been started.                            *)
C14_HungCheckDelaysNoProject ==
    \A k \in DOMAIN ticks :
        ticks[k].hung => \A j \in DOMAIN ticks[k].list : j <= ticks[k].i

-----------------------------------------------------------------------------
(* C16: every health check has its own bounded timeout, so a check whose    *)
(* remote never answers can still settle: its abort is able to fire.        *)
C16_HungCheckCanSettle ==
    \A k \in DOMAIN ticks : ticks[k].hung => ENABLED AbortFires(k)

-----------------------------------------------------------------------------
-----------------------------------------------------------------------------
\* Exactly one timer, over the current list, when there are projects; none otherwise
C15_TimerMatchesList ==
    IF projects = <<>> THEN intervals = <<>>
    ELSE Len(intervals) = 1 /\ intervals[1].list = projects

C15_Step ==
    \* the list changed and has projects: a tick over the new list has started
    /\ (projects' # projects /\ projects' # <<>>) =>
          ticks' = Append(ticks, startTick(projects'))
    \* the list became empty: no tick starts
    /\ (projects' # projects /\ projects' = <<>>) => ticks' = ticks
    \* the timer fires: a tick over the current list starts, the timer stays
    /\ \A k \in DOMAIN intervals :
          TimerFires(k) => (ticks' = Append(ticks, startTick(projects)) /\ intervals' = intervals)

(* C15: the monitor starts a tick at once when the project list becomes     *)
(* non-empty or changes, and then at every firing of the interval timer     *)
(* while the list is non-empty; with an empty list no timer is armed; at    *)
(* most one timer is armed at any time.                                     *)
C15_OneTimerWhileNonEmpty ==
    C15_TimerMatchesList /\ [][C15_Step /\ C15_TimerMatchesList']_vars

\* the shipped build's empty list got its first project: one timer, one tick over the list
C15_Witness ==
    /\ DEFAULT_PROJECTS = <<>>
    /\ lastOp.op = "addProject"
    /\ storedCustom(lastOp.before) = <<>>
    /\ Len(projects) = 1
    /\ Len(intervals) = 1
    /\ ticks = <<startTick(projects)>>

-----------------------------------------------------------------------------
(* C19: every published snapshot is keyed by exactly the ids of the project *)
(* list that is current when it is published.                               *)
C19_SnapshotKeyedByCurrentList ==
    published.any => DOMAIN statuses = ProjectIds(published.current)

-----------------------------------------------------------------------------
(* C20: snapshots are published in the order their ticks started: the tick  *)
(* that published last was not started before a tick that had published     *)
(* already.                                                                 *)
C20_PublishedInStartOrder == ~published.overtaken

====
